---------------------------- MODULE Spec2Model ----------------------------
(***************************************************************************)
(* A model of the two caches of the repository:                            *)
(*   - part_1.py: LRUCache (an OrderedDict keyed by (left, right)) and the *)
(*     range-sum / update functions built on it;                           *)
(*   - part_2.py: SplayTree (nodes with left/right/parent links).          *)
(* Three specifications share the variables:                               *)
(*   Spec      the LRUCache API driven directly (get / put / invalidate),  *)
(*   SpecRange the cached and the uncached run of one query sequence,      *)
(*   SpecTree  the SplayTree API (insert / get).                           *)
(***************************************************************************)
EXTENDS Integers, Sequences, FiniteSets, TLC

\* ------------------------------------------------------------------ bounds
\* Length of the backing array; keys are the ranges (left, right) over it.
ArrLen == 3
\* Largest capacity a cache is constructed with.
MaxCapacity == 2
\* Largest key inserted into the splay tree (keys are 0..MaxKey).
MaxKey == 3
\* Largest argument of fibonacci_splay.
MaxFib == 5

\* Array elements and values stored by put; negative values are included.
Values == {-1, 2}
\* Values stored by SplayTree.insert.
TreeValues == {10, 20}

Positions == 0..(ArrLen - 1)
Keys == {<<l, r>> : l \in Positions, r \in Positions} \ {<<l, r>> \in Positions \X Positions : l > r}
CapacityInputs == (0 - 1)..MaxCapacity
Arrays == [1..ArrLen -> Values]
TreeKeys == 0..MaxKey
\* get is also called with keys that are never inserted.
TreeGetKeys == (0 - 1)..(MaxKey + 1)

VARIABLES
    capacity,   \* LRUCache.capacity
    cache,      \* LRUCache._cache: the OrderedDict as a sequence of entries, oldest first
    array,      \* the backing list of the cached run
    plain,      \* the backing list of the uncached run of the same queries
    recency,    \* ghost: keys present in the cache, ordered by their last successful get or put
    last,       \* ghost: the last call, what it returned and what it found
    scenario,   \* ghost: how far the calls so far follow one of the two eviction scenarios
    root,       \* SplayTree.root: a node id, 0 for None
    nodes,      \* the _Node objects created so far: node id -> fields
    lastTree,   \* ghost: the last SplayTree call, its arguments and result
    ref,        \* ghost: the reference key -> value map driven by the same inserts
    pc          \* where the running call stands inside its loop, when calls are taken step by step

cacheVars == <<capacity, cache, array, plain, recency, last, scenario>>
treeVars == <<root, nodes, lastTree, ref>>
vars == <<capacity, cache, array, plain, recency, last, scenario, root, nodes, lastTree, ref, pc>>

\* ------------------------------------------------------------ OrderedDict
\* part_1.py line 20: get returns -1 for a key that is not present.
MISS == -1

NoKey == <<>>

Entry(k, v) == [key |-> k, value |-> v]

\* key in self._cache
Contains(d, k) == \E i \in 1..Len(d) : d[i].key = k

IndexOf(d, k) == CHOOSE i \in 1..Len(d) : d[i].key = k

\* self._cache[key]
getitem(d, k) == d[IndexOf(d, k)].value

\* del self._cache[key]
delitem(d, k) == SelectSeq(d, LAMBDA e : e.key # k)

\* OrderedDict.move_to_end(key): the entry becomes the last one.
move_to_end(d, k) == delitem(d, k) \o <<d[IndexOf(d, k)]>>

\* self._cache[key] = value: an existing key keeps its place, a new key is appended.
setitem(d, k, v) ==
    IF Contains(d, k) THEN [d EXCEPT ![IndexOf(d, k)].value = v]
    ELSE Append(d, Entry(k, v))

\* OrderedDict.popitem(last=False): the first entry is removed.
popitem_first(d) == Tail(d)

\* list(self._cache.keys())
KeyList(d) == [i \in 1..Len(d) |-> d[i].key]

KeySet(d) == {d[i].key : i \in 1..Len(d)}

\* --------------------------------------------------------------- LRUCache
\* LRUCache.__init__: the capacity is stored as given, the dictionary is empty.
LRUCache__init__(c) == [capacity |-> c, cache |-> <<>>]

\* Faulty variant: a hit does not refresh the entry's recency.
LRUCache_get_norefresh(d, k) ==
    IF Contains(d, k) THEN [cache |-> d, ret |-> getitem(d, k)]
    ELSE [cache |-> d, ret |-> MISS]

\* Faulty variant: a miss drops the oldest entry.
LRUCache_get_dropsonmiss(d, k) ==
    IF Contains(d, k) THEN [cache |-> move_to_end(d, k), ret |-> getitem(d, k)]
    ELSE [cache |-> IF d = <<>> THEN d ELSE popitem_first(d), ret |-> MISS]

\* LRUCache.get
LRUCache_get(d, k) ==
    IF Contains(d, k) THEN [cache |-> move_to_end(d, k), ret |-> getitem(d, k)]
    ELSE [cache |-> d, ret |-> MISS]

\* Faulty variant: room is made before the store, whenever the cache is full,
\* also when the key is already present.
LRUCache_put_evictfirst(cap, d, k, v) ==
    LET d0 == IF Len(d) >= cap /\ d # <<>> THEN popitem_first(d) ELSE d
        d1 == IF Contains(d0, k) THEN move_to_end(d0, k) ELSE d0
    IN  setitem(d1, k, v)

\* Faulty variant: the eviction test is off by one (>= capacity + 2).
LRUCache_put_late(cap, d, k, v) ==
    LET d1 == IF Contains(d, k) THEN move_to_end(d, k) ELSE d
        d2 == setitem(d1, k, v)
    IN  IF Len(d2) > cap + 1 THEN popitem_first(d2) ELSE d2

\* LRUCache.put
LRUCache_put(cap, d, k, v) ==
    LET d1 == IF Contains(d, k) THEN move_to_end(d, k) ELSE d
        d2 == setitem(d1, k, v)
    IN  IF Len(d2) > cap THEN popitem_first(d2) ELSE d2

\* The body of the loop of invalidate_ranges_containing, over the key snapshot.
RECURSIVE invalidate_loop(_, _, _)
invalidate_loop(d, keys, index) ==
    IF keys = <<>> THEN d
    ELSE LET key == Head(keys)
             left == key[1]
             right == key[2]
         IN  invalidate_loop(
                 IF left <= index /\ index <= right THEN delitem(d, key) ELSE d,
                 Tail(keys), index)

\* Faulty variant: the test excludes the left endpoint (left < index <= right).
RECURSIVE invalidate_loop_strict(_, _, _)
invalidate_loop_strict(d, keys, index) ==
    IF keys = <<>> THEN d
    ELSE LET key == Head(keys)
             left == key[1]
             right == key[2]
         IN  invalidate_loop_strict(
                 IF left < index /\ index <= right THEN delitem(d, key) ELSE d,
                 Tail(keys), index)

invalidate_ranges_containing_strict(d, index) == invalidate_loop_strict(d, KeyList(d), index)

\* Faulty variant: the whole cache is cleared, whatever the index.
invalidate_ranges_containing_clear(d, index) == <<>>

\* Faulty variant: the kept entries are stored again, newest first.
invalidate_ranges_containing_reversed(d, index) ==
    LET kept == invalidate_loop(d, KeyList(d), index)
    IN  [i \in 1..Len(kept) |-> kept[Len(kept) + 1 - i]]

\* LRUCache.invalidate_ranges_containing
invalidate_ranges_containing(d, index) == invalidate_loop(d, KeyList(d), index)

\* ------------------------------------------------- lists, sums, the queries
\* Faulty variant: a negative bound is taken as 0 instead of counting from the end.
PySliceIndex_nowrap(i, n) ==
    IF i < 0 THEN 0
    ELSE IF i > n THEN n ELSE i

\* A slice bound as Python normalises it for a list of length n.
PySliceIndex(i, n) ==
    IF i < 0 THEN (IF i + n < 0 THEN 0 ELSE i + n)
    ELSE IF i > n THEN n ELSE i

\* array[start : stop]
PySlice(a, start, stop) ==
    LET s == PySliceIndex(start, Len(a))
        e == PySliceIndex(stop, Len(a))
    IN  IF s < e THEN SubSeq(a, s + 1, e) ELSE <<>>

\* sum(list)
RECURSIVE PySum(_)
PySum(s) == IF s = <<>> THEN 0 ELSE Head(s) + PySum(Tail(s))

\* array[index] = value: a negative index counts from the end; outside the list
\* the assignment raises IndexError and the list is unchanged.
PySetItem(a, index, value) ==
    LET i == IF index < 0 THEN index + Len(a) ELSE index
    IN  IF i < 0 \/ i >= Len(a) THEN [array |-> a, raised |-> TRUE]
        ELSE [array |-> [a EXCEPT ![i + 1] = value], raised |-> FALSE]

\* range_sum_no_cache
range_sum_no_cache(a, left, right) == PySum(PySlice(a, left, right + 1))

\* update_no_cache
update_no_cache(a, index, value) == PySetItem(a, index, value)

\* Whether range_sum_with_cache(a, left, right, .) raises: its only access to the
\* list is the slice a[left : right + 1], which clamps its bounds and raises no
\* IndexError; sum, get and put raise nothing.
range_sum_raises(a, left, right) == FALSE

\* range_sum_with_cache: the result and the cache after the call; computed tells
\* whether the branch that sums the slice and calls put was taken.
range_sum_with_cache(a, left, right, cap, d) ==
    LET key == <<left, right>>
        g == LRUCache_get(d, key)
    IN  IF g.ret = MISS
        THEN LET res == PySum(PySlice(a, left, right + 1))
             IN  [ret |-> res, cache |-> LRUCache_put(cap, g.cache, key, res),
                  computed |-> TRUE]
        ELSE [ret |-> g.ret, cache |-> g.cache, computed |-> FALSE]

\* Faulty variant: the write is not followed by the invalidation.
update_with_cache_noinvalidate(a, index, value, d) ==
    LET w == PySetItem(a, index, value)
    IN  [array |-> w.array, raised |-> w.raised, cache |-> d]

\* update_with_cache: the list and the cache after the call.
update_with_cache(a, index, value, d) ==
    LET w == PySetItem(a, index, value)
    IN  [array |-> w.array, raised |-> w.raised,
         cache |-> IF w.raised THEN d ELSE invalidate_ranges_containing(d, index)]

\* ----------------------------------------------------------------- ghosts
\* The last call: op, its arguments (key, index, value), what it returned (ret;
\* plainRet in the uncached run), whether an update changed the element it
\* wrote, and, taken from the cache before the call, whether the key was present
\* (hit) and the number of entries (size).
Call(op, key, index, value, ret, plainRet, changed) ==
    [op |-> op, key |-> key, index |-> index, value |-> value, ret |-> ret,
     plainRet |-> plainRet, changed |-> changed,
     hit |-> Contains(cache, key), size |-> Len(cache)]

RemoveKey(s, k) == SelectSeq(s, LAMBDA x : x # k)

\* The key becomes the most recently used one.
Touch(s, k) == Append(RemoveKey(s, k), k)

\* The recency order of the keys that are still in the dictionary d.
Present(s, d) == SelectSeq(s, LAMBDA x : Contains(d, x))

\* An observer of the calls made on a fresh cache of capacity k >= 1, for the
\* script that puts the keys (0,0), (0,1), (0,2), ... in this order.
\*   "fill":     so far only the first n <= k puts of the script;
\*   "overflow": the first k + 1 puts of the script and nothing else;
\*   "read":     k >= 2, the first k puts of the script, then a get of (0,0);
\*   "readput":  "read", then the next put of the script;
\*   "off":      anything else.
ScriptKey(i) == <<0, i - 1>>

ScenarioStart == [phase |-> "fill", n |-> 0]

ScenarioStep(sc, op, k) ==
    IF sc.phase = "fill" /\ op = "put" /\ k = ScriptKey(sc.n + 1) /\ capacity > 0
    THEN [phase |-> IF sc.n + 1 > capacity THEN "overflow" ELSE "fill", n |-> sc.n + 1]
    ELSE IF /\ sc.phase = "fill" /\ op = "get" /\ capacity >= 2
            /\ sc.n = capacity /\ k = ScriptKey(1)
    THEN [phase |-> "read", n |-> sc.n]
    ELSE IF sc.phase = "read" /\ op = "put" /\ k = ScriptKey(sc.n + 1)
    THEN [phase |-> "readput", n |-> sc.n + 1]
    ELSE [phase |-> "off", n |-> 0]

\* --------------------------------------------- Spec: the LRUCache API alone
Init ==
    /\ \E c \in CapacityInputs :
          /\ capacity = LRUCache__init__(c).capacity
          /\ cache = LRUCache__init__(c).cache
    /\ array = <<>>
    /\ plain = <<>>
    /\ recency = <<>>
    /\ last = [op |-> "init"]
    /\ scenario = ScenarioStart
    /\ root = 0
    /\ nodes = <<>>
    /\ lastTree = [op |-> "init"]
    /\ ref = <<>>
    /\ pc = [at |-> "idle"]

Get(k) ==
    \E g \in {LRUCache_get(cache, k)} :
        /\ cache' = g.cache
        /\ last' = Call("get", k, 0, 0, g.ret, 0, FALSE)
        /\ recency' = Present(IF Contains(cache, k) THEN Touch(recency, k) ELSE recency, g.cache)
        /\ scenario' = ScenarioStep(scenario, "get", k)
        /\ UNCHANGED <<capacity, array, plain>>
        /\ UNCHANGED treeVars
        /\ UNCHANGED pc

Put(k, v) ==
    /\ cache' = LRUCache_put(capacity, cache, k, v)
    /\ last' = Call("put", k, 0, v, 0, 0, FALSE)
    /\ recency' = Present(Touch(recency, k), cache')
    /\ scenario' = ScenarioStep(scenario, "put", k)
    /\ UNCHANGED <<capacity, array, plain>>
    /\ UNCHANGED treeVars
    /\ UNCHANGED pc

Invalidate(index) ==
    /\ cache' = invalidate_ranges_containing(cache, index)
    /\ last' = Call("invalidate", NoKey, index, 0, 0, 0, FALSE)
    /\ recency' = Present(recency, cache')
    /\ scenario' = ScenarioStep(scenario, "invalidate", NoKey)
    /\ UNCHANGED <<capacity, array, plain>>
    /\ UNCHANGED treeVars
    /\ UNCHANGED pc

Next ==
    \/ \E k \in Keys : Get(k)
    \/ \E k \in Keys, v \in Values : Put(k, v)
    \/ \E index \in Positions : Invalidate(index)

Spec == Init /\ [][Next]_vars

\* ------------------- SpecOrder: a cache that holds more than two entries
\* The cache is constructed with capacity MaxCapacity + 1 and put stores one
\* value, so that an invalidation can remove an entry and keep several.
OrderInit ==
    /\ capacity = LRUCache__init__(MaxCapacity + 1).capacity
    /\ cache = LRUCache__init__(MaxCapacity + 1).cache
    /\ array = <<>>
    /\ plain = <<>>
    /\ recency = <<>>
    /\ last = [op |-> "init"]
    /\ scenario = ScenarioStart
    /\ root = 0
    /\ nodes = <<>>
    /\ lastTree = [op |-> "init"]
    /\ ref = <<>>
    /\ pc = [at |-> "idle"]

OrderNext ==
    \/ \E k \in Keys : Get(k)
    \/ \E k \in Keys : Put(k, 2)
    \/ \E index \in Positions : Invalidate(index)

SpecOrder == OrderInit /\ [][OrderNext]_vars

\* ------------------------------ SpecRange: the cached and the uncached run
\* _run_queries is run twice over copies of one base list: once with the plain
\* functions and once with a fresh cache.
RangeInit ==
    /\ \E c \in CapacityInputs :
          /\ capacity = LRUCache__init__(c).capacity
          /\ cache = LRUCache__init__(c).cache
    /\ array \in Arrays
    /\ plain = array
    /\ recency = <<>>
    /\ last = [op |-> "init"]
    /\ scenario = ScenarioStart
    /\ root = 0
    /\ nodes = <<>>
    /\ lastTree = [op |-> "init"]
    /\ ref = <<>>
    /\ pc = [at |-> "idle"]

\* A "Range" query: left <= right, both inside the list.
Range(left, right) ==
    \E rs \in {range_sum_with_cache(array, left, right, capacity, cache)} :
        /\ cache' = rs.cache
        /\ last' = Call("range_sum", <<left, right>>, 0, 0, rs.ret,
                        range_sum_no_cache(plain, left, right), FALSE)
        /\ UNCHANGED <<capacity, array, plain, recency, scenario>>
        /\ UNCHANGED treeVars
        /\ UNCHANGED pc

\* An "Update" query: the index is inside the list.
Update(index, value) ==
    \E u \in {update_with_cache(array, index, value, cache)} :
        /\ array' = u.array
        /\ cache' = u.cache
        /\ plain' = update_no_cache(plain, index, value).array
        /\ last' = Call("update", NoKey, index, value, 0, 0, u.array # array)
        /\ UNCHANGED <<capacity, recency, scenario>>
        /\ UNCHANGED treeVars
        /\ UNCHANGED pc

RangeNext ==
    \/ \E k \in Keys : Range(k[1], k[2])
    \/ \E index \in Positions, value \in Values : Update(index, value)

SpecRange == RangeInit /\ [][RangeNext]_vars

\* -------------------- SpecEdge: range sums with bounds outside the list
\* left and right are any integers from one below -len(array) to one above
\* len(array), in any order; the cache has capacity 1.
EdgeIndex == (0 - ArrLen - 1)..(ArrLen + 1)

EdgeInit ==
    /\ capacity = LRUCache__init__(1).capacity
    /\ cache = LRUCache__init__(1).cache
    /\ array \in Arrays
    /\ plain = array
    /\ recency = <<>>
    /\ last = [op |-> "init"]
    /\ scenario = ScenarioStart
    /\ root = 0
    /\ nodes = <<>>
    /\ lastTree = [op |-> "init"]
    /\ ref = <<>>
    /\ pc = [at |-> "idle"]

\* range_sum_with_cache(array, left, right, cache); last also records whether
\* the call raised, whether it summed the slice and called put and, from the
\* cache before it, the value stored under the key (MISS when there is none).
EdgeRange(left, right) ==
    \E rs \in {range_sum_with_cache(array, left, right, capacity, cache)} :
        /\ cache' = rs.cache
        /\ last' = [op |-> "range_sum", key |-> <<left, right>>, ret |-> rs.ret,
                    raised |-> range_sum_raises(array, left, right),
                    computed |-> rs.computed,
                    hit |-> Contains(cache, <<left, right>>),
                    stored |-> IF Contains(cache, <<left, right>>)
                               THEN getitem(cache, <<left, right>>) ELSE MISS]
        /\ UNCHANGED <<capacity, array, plain, recency, scenario>>
        /\ UNCHANGED treeVars
        /\ UNCHANGED pc

EdgeNext ==
    \/ \E left \in EdgeIndex, right \in EdgeIndex : EdgeRange(left, right)
    \/ \E index \in Positions, value \in Values : Update(index, value)

SpecEdge == EdgeInit /\ [][EdgeNext]_vars

\* -------------------------------------------------------------- SplayTree
\* A tree is [root, nodes]: nodes maps the id of every _Node object created so
\* far to its fields, whose links are node ids; 0 is None. An object's id is its
\* name in the model only: a new node is named key + 1 when no node has that
\* name yet, and takes the next unused name otherwise.
None == 0

\* F applied to the value of v: v is evaluated once, before F.
Bind(v, F(_)) == CHOOSE r \in {F(x) : x \in {v}} : TRUE

Node(key, value, parent) ==
    [key |-> key, value |-> value, left |-> None, right |-> None, parent |-> parent]

Max(S) == CHOOSE m \in S : \A x \in S : x <= m

NewId(n, key) ==
    IF (key + 1) \notin DOMAIN n /\ key + 1 > 0 THEN key + 1
    ELSE Max(DOMAIN n \cup {key + 1, 0}) + 1

\* The nodes with one more object.
Alloc(n, id, node) == [i \in DOMAIN n \cup {id} |-> IF i = id THEN node ELSE n[i]]

\* a == b on _Node | None: the dataclass compares the fields of two nodes (key
\* first); a node equals itself and never equals None. The links of two distinct
\* nodes whose keys and values agree are compared here by identity.
NodeEq(n, a, b) ==
    \/ a = b
    \/ /\ a # None
       /\ b # None
       /\ n[a].key = n[b].key
       /\ n[a].value = n[b].value
       /\ n[a].left = n[b].left
       /\ n[a].right = n[b].right
       /\ n[a].parent = n[b].parent

\* Faulty variant: the subtree that changes sides keeps its old parent link.
_right_rotate_noreparent(t, x) ==
    LET n == t.nodes
        y == n[x].left
    IN  IF y = None THEN t
        ELSE LET n2 == [n EXCEPT ![x].left = n[y].right]
             IN  Bind([n2 EXCEPT ![y].parent = n2[x].parent], LAMBDA n3 :
                 LET xp == n3[x].parent
                     n4 == IF xp = None THEN n3
                           ELSE IF NodeEq(n3, x, n3[xp].right) THEN [n3 EXCEPT ![xp].right = y]
                           ELSE [n3 EXCEPT ![xp].left = y]
                     n5 == [n4 EXCEPT ![y].right = x]
                     n6 == [n5 EXCEPT ![x].parent = y]
                 IN  [root |-> IF xp = None THEN y ELSE t.root, nodes |-> n6])

\* SplayTree._right_rotate
_right_rotate(t, x) ==
    LET n == t.nodes
        y == n[x].left
    IN  IF y = None THEN t
        ELSE LET n1 == [n EXCEPT ![x].left = n[y].right]
                 n2 == IF n1[y].right # None THEN [n1 EXCEPT ![n1[y].right].parent = x] ELSE n1
             IN  Bind([n2 EXCEPT ![y].parent = n2[x].parent], LAMBDA n3 :
                 LET xp == n3[x].parent
                     n4 == IF xp = None THEN n3
                           ELSE IF NodeEq(n3, x, n3[xp].right) THEN [n3 EXCEPT ![xp].right = y]
                           ELSE [n3 EXCEPT ![xp].left = y]
                     n5 == [n4 EXCEPT ![y].right = x]
                     n6 == [n5 EXCEPT ![x].parent = y]
                 IN  [root |-> IF xp = None THEN y ELSE t.root, nodes |-> n6])

\* Faulty variant: the parent's left slot is written, whichever side x was on.
_left_rotate_wrongslot(t, x) ==
    LET n == t.nodes
        y == n[x].right
    IN  IF y = None THEN t
        ELSE LET n1 == [n EXCEPT ![x].right = n[y].left]
                 n2 == IF n1[y].left # None THEN [n1 EXCEPT ![n1[y].left].parent = x] ELSE n1
             IN  Bind([n2 EXCEPT ![y].parent = n2[x].parent], LAMBDA n3 :
                 LET xp == n3[x].parent
                     n4 == IF xp = None THEN n3 ELSE [n3 EXCEPT ![xp].left = y]
                     n5 == [n4 EXCEPT ![y].left = x]
                     n6 == [n5 EXCEPT ![x].parent = y]
                 IN  [root |-> IF xp = None THEN y ELSE t.root, nodes |-> n6])

\* SplayTree._left_rotate
_left_rotate(t, x) ==
    LET n == t.nodes
        y == n[x].right
    IN  IF y = None THEN t
        ELSE LET n1 == [n EXCEPT ![x].right = n[y].left]
                 n2 == IF n1[y].left # None THEN [n1 EXCEPT ![n1[y].left].parent = x] ELSE n1
             IN  Bind([n2 EXCEPT ![y].parent = n2[x].parent], LAMBDA n3 :
                 LET xp == n3[x].parent
                     n4 == IF xp = None THEN n3
                           ELSE IF NodeEq(n3, x, n3[xp].left) THEN [n3 EXCEPT ![xp].left = y]
                           ELSE [n3 EXCEPT ![xp].right = y]
                     n5 == [n4 EXCEPT ![y].left = x]
                     n6 == [n5 EXCEPT ![x].parent = y]
                 IN  [root |-> IF xp = None THEN y ELSE t.root, nodes |-> n6])

\* Faulty variant: in a zig-zig step the parent is rotated first, then the
\* node that is x's parent after that (the former grandparent).
splay_step_parentfirst(t, x) ==
    LET n == t.nodes
        p == n[x].parent
        g == n[p].parent
    IN  IF g = None
        THEN IF NodeEq(n, n[p].left, x) THEN _right_rotate(t, p) ELSE _left_rotate(t, p)
        ELSE IF NodeEq(n, n[p].left, x) /\ NodeEq(n, n[g].left, p)
        THEN Bind(_right_rotate(t, p), LAMBDA t1 : _right_rotate(t1, t1.nodes[x].parent))
        ELSE IF NodeEq(n, n[p].right, x) /\ NodeEq(n, n[g].right, p)
        THEN Bind(_left_rotate(t, p), LAMBDA t1 : _left_rotate(t1, t1.nodes[x].parent))
        ELSE IF NodeEq(n, n[p].left, x) /\ NodeEq(n, n[g].right, p)
        THEN Bind(_right_rotate(t, p), LAMBDA t1 : _left_rotate(t1, t1.nodes[x].parent))
        ELSE Bind(_left_rotate(t, p), LAMBDA t1 : _right_rotate(t1, t1.nodes[x].parent))

\* Faulty variant: the zig step rotates the parent the wrong way.
splay_step_wrongzig(t, x) ==
    LET n == t.nodes
        p == n[x].parent
        g == n[p].parent
    IN  IF g = None
        THEN IF NodeEq(n, n[p].left, x) THEN _left_rotate(t, p) ELSE _right_rotate(t, p)
        ELSE IF NodeEq(n, n[p].left, x) /\ NodeEq(n, n[g].left, p)
        THEN Bind(_right_rotate(t, g), LAMBDA t1 : _right_rotate(t1, t1.nodes[x].parent))
        ELSE IF NodeEq(n, n[p].right, x) /\ NodeEq(n, n[g].right, p)
        THEN Bind(_left_rotate(t, g), LAMBDA t1 : _left_rotate(t1, t1.nodes[x].parent))
        ELSE IF NodeEq(n, n[p].left, x) /\ NodeEq(n, n[g].right, p)
        THEN Bind(_right_rotate(t, p), LAMBDA t1 : _left_rotate(t1, t1.nodes[x].parent))
        ELSE Bind(_left_rotate(t, p), LAMBDA t1 : _right_rotate(t1, t1.nodes[x].parent))

\* One iteration of the loop of _splay, for x with a parent. x.parent is read
\* again before the second rotation of a double step.
splay_step(t, x) ==
    LET n == t.nodes
        p == n[x].parent
        g == n[p].parent
    IN  IF g = None
        THEN IF NodeEq(n, n[p].left, x) THEN _right_rotate(t, p) ELSE _left_rotate(t, p)
        ELSE IF NodeEq(n, n[p].left, x) /\ NodeEq(n, n[g].left, p)
        THEN Bind(_right_rotate(t, g), LAMBDA t1 : _right_rotate(t1, t1.nodes[x].parent))
        ELSE IF NodeEq(n, n[p].right, x) /\ NodeEq(n, n[g].right, p)
        THEN Bind(_left_rotate(t, g), LAMBDA t1 : _left_rotate(t1, t1.nodes[x].parent))
        ELSE IF NodeEq(n, n[p].left, x) /\ NodeEq(n, n[g].right, p)
        THEN Bind(_right_rotate(t, p), LAMBDA t1 : _left_rotate(t1, t1.nodes[x].parent))
        ELSE Bind(_left_rotate(t, p), LAMBDA t1 : _right_rotate(t1, t1.nodes[x].parent))

\* Faulty variant: a single step instead of the loop.
_splay_once(t, x) == IF t.nodes[x].parent = None THEN t ELSE splay_step(t, x)

\* SplayTree._splay: while x.parent
RECURSIVE _splay(_, _)
_splay(t, x) ==
    IF t.nodes[x].parent = None THEN t
    ELSE Bind(splay_step(t, x), LAMBDA t1 : _splay(t1, x))

\* The loop of _find_node from `node`: the tree after the splay and the node
\* found (None when the key is not there).
RECURSIVE find_loop(_, _, _)
find_loop(t, node, key) ==
    IF node = None THEN [tree |-> t, node |-> None]
    ELSE LET n == t.nodes[node]
         IN  IF key = n.key THEN [tree |-> _splay(t, node), node |-> node]
             ELSE IF key < n.key
             THEN IF n.left # None THEN find_loop(t, n.left, key)
                  ELSE [tree |-> _splay(t, node), node |-> None]
             ELSE IF n.right # None THEN find_loop(t, n.right, key)
                  ELSE [tree |-> _splay(t, node), node |-> None]

\* SplayTree._find_node
_find_node(t, key) == find_loop(t, t.root, key)

\* Faulty variant: a search that ends at a missing child returns without the splay.
SplayTree_get_nosplayonmiss(t, key) ==
    Bind(_find_node(t, key), LAMBDA f :
        IF f.node = None THEN [tree |-> t, found |-> FALSE, ret |-> 0]
        ELSE [tree |-> f.tree, found |-> TRUE, ret |-> f.tree.nodes[f.node].value])

\* SplayTree.get: found is FALSE for the result None.
SplayTree_get(t, key) ==
    Bind(_find_node(t, key), LAMBDA f :
        [tree |-> f.tree, found |-> f.node # None,
         ret |-> IF f.node # None THEN f.tree.nodes[f.node].value ELSE 0])

\* A new _Node(key, value, parent=node) stored in node.left.
AttachLeft(t, node, key, value) ==
    LET new == NewId(t.nodes, key)
    IN  [tree |-> [t EXCEPT !.nodes = Alloc([t.nodes EXCEPT ![node].left = new], new,
                                            Node(key, value, node))],
         node |-> new]

\* A new _Node(key, value, parent=node) stored in node.right.
AttachRight(t, node, key, value) ==
    LET new == NewId(t.nodes, key)
    IN  [tree |-> [t EXCEPT !.nodes = Alloc([t.nodes EXCEPT ![node].right = new], new,
                                            Node(key, value, node))],
         node |-> new]

\* The loop of insert from `node`.
RECURSIVE insert_loop(_, _, _, _)
insert_loop(t, node, key, value) ==
    LET n == t.nodes[node]
    IN  IF key = n.key
        THEN Bind([t EXCEPT !.nodes[node].value = value], LAMBDA t1 : _splay(t1, node))
        ELSE IF key < n.key
        THEN IF n.left # None THEN insert_loop(t, n.left, key, value)
             ELSE Bind(AttachLeft(t, node, key, value), LAMBDA a : _splay(a.tree, a.node))
        ELSE IF n.right # None THEN insert_loop(t, n.right, key, value)
             ELSE Bind(AttachRight(t, node, key, value), LAMBDA a : _splay(a.tree, a.node))

\* The first node of a tree.
FirstNode(t, key, value) ==
    [root |-> NewId(t.nodes, key), nodes |-> Alloc(t.nodes, NewId(t.nodes, key), Node(key, value, None))]

\* Faulty variant: the comparison of the descent is inverted (smaller keys go right).
RECURSIVE insert_loop_swapped(_, _, _, _)
insert_loop_swapped(t, node, key, value) ==
    LET n == t.nodes[node]
    IN  IF key = n.key
        THEN Bind([t EXCEPT !.nodes[node].value = value], LAMBDA t1 : _splay(t1, node))
        ELSE IF key > n.key
        THEN IF n.left # None THEN insert_loop_swapped(t, n.left, key, value)
             ELSE Bind(AttachLeft(t, node, key, value), LAMBDA a : _splay(a.tree, a.node))
        ELSE IF n.right # None THEN insert_loop_swapped(t, n.right, key, value)
             ELSE Bind(AttachRight(t, node, key, value), LAMBDA a : _splay(a.tree, a.node))

SplayTree_insert_swapped(t, key, value) ==
    IF t.root = None THEN FirstNode(t, key, value)
    ELSE insert_loop_swapped(t, t.root, key, value)

\* Faulty variant: an existing key is splayed but its value is not overwritten.
RECURSIVE insert_loop_keep(_, _, _, _)
insert_loop_keep(t, node, key, value) ==
    LET n == t.nodes[node]
    IN  IF key = n.key
        THEN _splay(t, node)
        ELSE IF key < n.key
        THEN IF n.left # None THEN insert_loop_keep(t, n.left, key, value)
             ELSE Bind(AttachLeft(t, node, key, value), LAMBDA a : _splay(a.tree, a.node))
        ELSE IF n.right # None THEN insert_loop_keep(t, n.right, key, value)
             ELSE Bind(AttachRight(t, node, key, value), LAMBDA a : _splay(a.tree, a.node))

SplayTree_insert_keep(t, key, value) ==
    IF t.root = None THEN FirstNode(t, key, value)
    ELSE insert_loop_keep(t, t.root, key, value)

\* SplayTree.insert: the first node becomes the root without a splay.
SplayTree_insert(t, key, value) ==
    IF t.root = None THEN FirstNode(t, key, value)
    ELSE insert_loop(t, t.root, key, value)

\* SplayTree.__init__
SplayTree__init__ == [root |-> None, nodes |-> <<>>]

\* Faulty variant: the base case also takes n = 2.
RECURSIVE fibonacci_splay_base2(_, _)
fibonacci_splay_base2(n, t) ==
    Bind(SplayTree_get(t, n), LAMBDA g :
        IF g.found THEN [ret |-> g.ret, tree |-> g.tree]
        ELSE IF n <= 2 THEN [ret |-> n, tree |-> SplayTree_insert(g.tree, n, n)]
        ELSE Bind(fibonacci_splay_base2(n - 1, g.tree), LAMBDA a :
             Bind(fibonacci_splay_base2(n - 2, a.tree), LAMBDA b :
                 [ret |-> a.ret + b.ret,
                  tree |-> SplayTree_insert(b.tree, n, a.ret + b.ret)])))

\* fibonacci_splay: the result and the tree after the call. The left operand
\* of the sum is evaluated first.
RECURSIVE fibonacci_splay(_, _)
fibonacci_splay(n, t) ==
    Bind(SplayTree_get(t, n), LAMBDA g :
        IF g.found THEN [ret |-> g.ret, tree |-> g.tree]
        ELSE IF n < 2 THEN [ret |-> n, tree |-> SplayTree_insert(g.tree, n, n)]
        ELSE Bind(fibonacci_splay(n - 1, g.tree), LAMBDA a :
             Bind(fibonacci_splay(n - 2, a.tree), LAMBDA b :
                 [ret |-> a.ret + b.ret,
                  tree |-> SplayTree_insert(b.tree, n, a.ret + b.ret)])))

\* ------------------------------------------- SpecTree: the SplayTree API
Tree == [root |-> root, nodes |-> nodes]

\* The number of links from the root down to node x.
RECURSIVE Depth(_, _)
Depth(n, x) == IF n[x].parent = None THEN 0 ELSE 1 + Depth(n, n[x].parent)

\* The last node visited by the descent for key from x: the node that holds the
\* key, or the node whose missing child ends the search.
RECURSIVE Descent(_, _, _)
Descent(n, x, key) ==
    IF key = n[x].key THEN x
    ELSE LET c == IF key < n[x].key THEN n[x].left ELSE n[x].right
         IN  IF c = None THEN x ELSE Descent(n, c, key)

\* Ghosts of a call, taken from the tree before it: whether a node holds the
\* key, the depth of that node (0 when there is none), the number of nodes, and
\* the depth of the last node the descent for the key visits (0 in an empty tree).
TreeCall(op, key, value, ret, found) ==
    LET holders == {x \in DOMAIN nodes : nodes[x].key = key}
    IN  [op |-> op, key |-> key, value |-> value, ret |-> ret, found |-> found,
         present |-> holders # {},
         depth |-> IF holders = {} THEN 0 ELSE Depth(nodes, CHOOSE x \in holders : TRUE),
         size |-> Cardinality(DOMAIN nodes),
         visited |-> IF root = None THEN 0 ELSE Depth(nodes, Descent(nodes, root, key))]

\* The reference map after ref[key] = value.
RefPut(m, key, value) ==
    [k \in (DOMAIN m) \cup {key} |-> IF k = key THEN value ELSE m[k]]

TreeInit ==
    /\ root = SplayTree__init__.root
    /\ nodes = SplayTree__init__.nodes
    /\ lastTree = TreeCall("init", 0, 0, 0, FALSE)
    /\ ref = <<>>
    /\ capacity = 1
    /\ cache = <<>>
    /\ array = <<>>
    /\ plain = <<>>
    /\ recency = <<>>
    /\ last = [op |-> "init"]
    /\ scenario = ScenarioStart
    /\ pc = [at |-> "idle"]

TreeGet(key) ==
    \E g \in {SplayTree_get(Tree, key)} :
        /\ root' = g.tree.root
        /\ nodes' = g.tree.nodes
        /\ lastTree' = TreeCall("get", key, 0, g.ret, g.found)
        /\ UNCHANGED ref
        /\ UNCHANGED cacheVars
        /\ UNCHANGED pc

TreeInsert(key, value) ==
    \E t \in {SplayTree_insert(Tree, key, value)} :
        /\ root' = t.root
        /\ nodes' = t.nodes
        /\ lastTree' = TreeCall("insert", key, value, 0, FALSE)
        /\ ref' = RefPut(ref, key, value)
        /\ UNCHANGED cacheVars
        /\ UNCHANGED pc

TreeNext ==
    \/ \E key \in TreeGetKeys : TreeGet(key)
    \/ \E key \in TreeKeys, value \in TreeValues : TreeInsert(key, value)

SpecTree == TreeInit /\ [][TreeNext]_vars

\* ------------------------ SpecFib: fibonacci_splay calls on one shared tree
\* The tree starts empty and is touched by fibonacci_splay only. lastTree
\* records n, the result and, from the tree before the call, whether n was
\* stored and the number of nodes.
FibCall(n) ==
    \E f \in {fibonacci_splay(n, Tree)} :
        /\ root' = f.tree.root
        /\ nodes' = f.tree.nodes
        /\ lastTree' = [op |-> "fib", n |-> n, ret |-> f.ret,
                        present |-> \E x \in DOMAIN nodes : nodes[x].key = n,
                        size |-> Cardinality(DOMAIN nodes)]
        /\ UNCHANGED <<ref, pc>>
        /\ UNCHANGED cacheVars

FibNext == \E n \in 0..MaxFib : FibCall(n)

SpecFib == TreeInit /\ [][FibNext]_vars

\* ------------------------------ SpecRotate: single rotations about any node
\* Trees are built by insert; _right_rotate and _left_rotate are then called
\* about any node, which produces every shape of tree over the inserted keys.
\* lastTree records, from the tree before the rotation: the node x, the child y
\* that is to rise (None when x has none on that side), x's parent, and the
\* subtree of y that is to change sides.
RotateInsert(key, value) ==
    \E t \in {SplayTree_insert(Tree, key, value)} :
        /\ root' = t.root
        /\ nodes' = t.nodes
        /\ lastTree' = [op |-> "insert"]
        /\ UNCHANGED <<ref, pc>>
        /\ UNCHANGED cacheVars

RotateRight(x) ==
    \E t \in {_right_rotate(Tree, x)} :
        /\ root' = t.root
        /\ nodes' = t.nodes
        /\ lastTree' = [op |-> "right_rotate", x |-> x, y |-> nodes[x].left,
                        parent |-> nodes[x].parent,
                        moved |-> IF nodes[x].left = None THEN None
                                  ELSE nodes[nodes[x].left].right]
        /\ UNCHANGED <<ref, pc>>
        /\ UNCHANGED cacheVars

RotateLeft(x) ==
    \E t \in {_left_rotate(Tree, x)} :
        /\ root' = t.root
        /\ nodes' = t.nodes
        /\ lastTree' = [op |-> "left_rotate", x |-> x, y |-> nodes[x].right,
                        parent |-> nodes[x].parent,
                        moved |-> IF nodes[x].right = None THEN None
                                  ELSE nodes[nodes[x].right].left]
        /\ UNCHANGED <<ref, pc>>
        /\ UNCHANGED cacheVars

RotateNext ==
    \/ \E key \in TreeKeys, value \in TreeValues : RotateInsert(key, value)
    \/ \E x \in DOMAIN nodes : RotateRight(x)
    \/ \E x \in DOMAIN nodes : RotateLeft(x)

SpecRotate == TreeInit /\ [][RotateNext]_vars

\* ------------------------- SpecSteps: the calls taken one loop iteration at a time
\* A run is a run of one of the two programs. Between calls pc is "idle" and
\* records the call that returned last and the loop iterations it took (steps).
\* Inside a call pc holds the local variables of the loop it stands in:
\*   "find"        _find_node at `while node`, with key and node;
\*   "insert"      insert at `while True`, with key, value and node;
\*   "splay"       _splay at `while x.parent`, with x and the branch the last
\*                 iteration took (case: "zig", "zigzig", "zigzag"; "none" before
\*                 the first iteration);
\*   "invalidate"  invalidate_ranges_containing at `for key in list(...)`, with
\*                 index, the keys of the snapshot not yet visited, and the number
\*                 of entries when the call started (size).
Idle(part, op, steps) == [part |-> part, at |-> "idle", op |-> op, steps |-> steps]

StepsInit ==
    /\ pc \in {Idle("tree", "init", 0), Idle("cache", "init", 0)}
    /\ capacity = LRUCache__init__(MaxCapacity).capacity
    /\ cache = LRUCache__init__(MaxCapacity).cache
    /\ root = SplayTree__init__.root
    /\ nodes = SplayTree__init__.nodes
    /\ array = <<>>
    /\ plain = <<>>
    /\ recency = <<>>
    /\ last = [op |-> "init"]
    /\ scenario = ScenarioStart
    /\ lastTree = [op |-> "init"]
    /\ ref = <<>>

stepFrame == <<array, plain, recency, last, scenario, lastTree, ref>>

\* get(key) is called: node = self.root
StartGet(key) ==
    /\ pc.part = "tree"
    /\ pc.at = "idle"
    /\ pc' = [part |-> "tree", at |-> "find", op |-> "get", key |-> key,
              node |-> root, steps |-> 0]
    /\ UNCHANGED <<root, nodes, capacity, cache>>
    /\ UNCHANGED stepFrame

\* The test and one iteration of the loop of _find_node.
FindStep ==
    /\ pc.at = "find"
    /\ pc' = IF pc.node = None THEN Idle("tree", pc.op, pc.steps)
             ELSE LET n == nodes[pc.node]
                      child == IF pc.key < n.key THEN n.left ELSE n.right
                  IN  IF pc.key # n.key /\ child # None
                      THEN [pc EXCEPT !.node = child, !.steps = pc.steps + 1]
                      ELSE [part |-> "tree", at |-> "splay", op |-> pc.op,
                            x |-> pc.node, steps |-> pc.steps + 1, case |-> "none"]
    /\ UNCHANGED <<root, nodes, capacity, cache>>
    /\ UNCHANGED stepFrame

\* insert(key, value) is called: the first node is stored at once, otherwise
\* node = self.root
StartInsert(key, value) ==
    /\ pc.part = "tree"
    /\ pc.at = "idle"
    /\ IF root = None
       THEN /\ root' = FirstNode(Tree, key, value).root
            /\ nodes' = FirstNode(Tree, key, value).nodes
            /\ pc' = Idle("tree", "insert", 0)
       ELSE /\ pc' = [part |-> "tree", at |-> "insert", op |-> "insert", key |-> key,
                      value |-> value, node |-> root, steps |-> 0]
            /\ UNCHANGED <<root, nodes>>
    /\ UNCHANGED <<capacity, cache>>
    /\ UNCHANGED stepFrame

\* One iteration of the loop of insert.
InsertStep ==
    /\ pc.at = "insert"
    /\ LET n == nodes[pc.node]
           toSplay(x) == [part |-> "tree", at |-> "splay", op |-> pc.op, x |-> x,
                          steps |-> pc.steps + 1, case |-> "none"]
       IN  IF pc.key = n.key
           THEN /\ nodes' = [nodes EXCEPT ![pc.node].value = pc.value]
                /\ pc' = toSplay(pc.node)
           ELSE \E child \in {IF pc.key < n.key THEN n.left ELSE n.right} :
                IF child # None
                THEN /\ pc' = [pc EXCEPT !.node = child, !.steps = pc.steps + 1]
                     /\ UNCHANGED nodes
                ELSE \E a \in {IF pc.key < n.key
                                THEN AttachLeft(Tree, pc.node, pc.key, pc.value)
                                ELSE AttachRight(Tree, pc.node, pc.key, pc.value)} :
                         /\ nodes' = a.tree.nodes
                         /\ pc' = toSplay(a.node)
    /\ UNCHANGED <<root, capacity, cache>>
    /\ UNCHANGED stepFrame

\* The branch an iteration of _splay takes for x, which has a parent.
SplayCase(n, x) ==
    LET p == n[x].parent
        g == n[p].parent
    IN  IF g = None THEN "zig"
        ELSE IF NodeEq(n, n[p].left, x) /\ NodeEq(n, n[g].left, p) THEN "zigzig"
        ELSE IF NodeEq(n, n[p].right, x) /\ NodeEq(n, n[g].right, p) THEN "zigzig"
        ELSE "zigzag"

\* The test and one iteration of the loop of _splay.
SplayStep ==
    /\ pc.at = "splay"
    /\ IF nodes[pc.x].parent = None
       THEN /\ pc' = Idle("tree", pc.op, pc.steps)
            /\ UNCHANGED <<root, nodes>>
       ELSE \E t \in {splay_step(Tree, pc.x)} :
                /\ root' = t.root
                /\ nodes' = t.nodes
                /\ pc' = [pc EXCEPT !.steps = pc.steps + 1, !.case = SplayCase(nodes, pc.x)]
    /\ UNCHANGED <<capacity, cache>>
    /\ UNCHANGED stepFrame

\* LRUCache.get: no loop.
CacheGet(k) ==
    /\ pc.part = "cache"
    /\ pc.at = "idle"
    /\ cache' = LRUCache_get(cache, k).cache
    /\ pc' = Idle("cache", "get", 0)
    /\ UNCHANGED <<root, nodes, capacity>>
    /\ UNCHANGED stepFrame

\* LRUCache.put: no loop.
CachePut(k, v) ==
    /\ pc.part = "cache"
    /\ pc.at = "idle"
    /\ cache' = LRUCache_put(capacity, cache, k, v)
    /\ pc' = Idle("cache", "put", 0)
    /\ UNCHANGED <<root, nodes, capacity>>
    /\ UNCHANGED stepFrame

\* invalidate_ranges_containing(index) is called: list(self._cache.keys())
StartInvalidate(index) ==
    /\ pc.part = "cache"
    /\ pc.at = "idle"
    /\ pc' = [part |-> "cache", at |-> "invalidate", op |-> "invalidate", index |-> index,
              keys |-> KeyList(cache), size |-> Len(cache), steps |-> 0]
    /\ UNCHANGED <<root, nodes, capacity, cache>>
    /\ UNCHANGED stepFrame

\* One iteration of the loop of invalidate_ranges_containing, or its end.
InvalidateStep ==
    /\ pc.at = "invalidate"
    /\ IF pc.keys = <<>>
       THEN /\ pc' = Idle("cache", pc.op, pc.steps)
            /\ UNCHANGED cache
       ELSE LET key == Head(pc.keys)
                left == key[1]
                right == key[2]
            IN  /\ cache' = IF left <= pc.index /\ pc.index <= right
                             THEN delitem(cache, key) ELSE cache
                /\ pc' = [pc EXCEPT !.keys = Tail(pc.keys), !.steps = pc.steps + 1]
    /\ UNCHANGED <<root, nodes, capacity>>
    /\ UNCHANGED stepFrame

\* A call that has started keeps running: the program is single-threaded and
\* nothing suspends it.
StepsAdvance == FindStep \/ InsertStep \/ SplayStep \/ InvalidateStep

StepsNext ==
    \/ \E key \in TreeGetKeys : StartGet(key)
    \/ FindStep
    \/ \E key \in TreeKeys : StartInsert(key, key)
    \/ InsertStep
    \/ SplayStep
    \/ \E k \in Keys : CacheGet(k)
    \/ \E k \in Keys : CachePut(k, 2)
    \/ \E index \in Positions : StartInvalidate(index)
    \/ InvalidateStep

SpecSteps == StepsInit /\ [][StepsNext]_vars /\ WF_vars(StepsAdvance)

\* ------------------------------------------------- properties of LRUCache
Covers(key, index) == key[1] <= index /\ index <= key[2]

\* The sum of a[left..right] inclusive (0-based), by its definition.
RECURSIVE TrueSum(_, _, _)
TrueSum(a, left, right) ==
    IF left > right THEN 0 ELSE a[right + 1] + TrueSum(a, left, right - 1)

\* C1: a cache constructed with a positive capacity holds at most capacity
\* entries after every completed get, put or invalidate_ranges_containing call.
C1_CapacityInvariant == capacity > 0 => Len(cache) <= capacity

\* A put of a new key into a full cache has completed, and the cache is full again.
C1_Witness ==
    /\ capacity > 0
    /\ last.op = "put"
    /\ ~last.hit
    /\ last.size = capacity
    /\ Len(cache) = capacity

\* C2: every cached entry (left, right) -> v holds the sum of the current array
\* over [left, right]; after an update of index, get on every key covering index
\* returns MISS.
C2_CachedSumsAreCurrent ==
    /\ \A i \in 1..Len(cache) :
          cache[i].value = TrueSum(array, cache[i].key[1], cache[i].key[2])
    /\ last.op = "update" =>
          \A k \in Keys : Covers(k, last.index) => LRUCache_get(cache, k).ret = MISS

\* An update has changed an element, removed the entries covering it and kept another.
C2_Witness ==
    /\ last.op = "update"
    /\ last.changed
    /\ Len(cache) < last.size
    /\ cache # <<>>

\* C3: a put of a new key into a full cache (capacity k >= 1) removes exactly the
\* least recently used key, recency being refreshed by every successful get and
\* every put; the other entries are kept with their values, the new key is stored.
\* So k + 1 distinct keys put into a fresh cache leave the first one out and keep
\* the other k; and when the first key is read before the last put, it stays and
\* the second key, put later but not read since, is the one removed.
C3_EvictsLeastRecentlyUsed ==
    [][/\ (/\ last'.op = "put"
           /\ capacity > 0
           /\ ~Contains(cache, last'.key)
           /\ Len(cache) + 1 > capacity)
          => /\ recency # <<>>
             /\ Head(recency) \in KeySet(cache)
             /\ KeySet(cache') = (KeySet(cache) \cup {last'.key}) \ {Head(recency)}
             /\ \A j \in KeySet(cache) \ {Head(recency)} : getitem(cache', j) = getitem(cache, j)
             /\ getitem(cache', last'.key) = last'.value
       /\ scenario'.phase = "overflow"
          => KeySet(cache') = {ScriptKey(i) : i \in 2..scenario'.n}
       /\ scenario'.phase = "readput"
          => KeySet(cache') = {ScriptKey(1)} \cup {ScriptKey(i) : i \in 3..scenario'.n}]_vars

\* Capacity k >= 2: the keys (0,0), (0,1), ... were put until the cache was full,
\* (0,0) was read, and one more new key was put, which evicted an entry.
C3_Witness ==
    /\ capacity >= 2
    /\ scenario.phase = "readput"
    /\ last.op = "put"
    /\ ~last.hit
    /\ last.size = capacity
    /\ Len(cache) = capacity

\* C4: every range_sum_with_cache call returns what range_sum_no_cache returns in
\* the uncached run of the same queries: the sum of the current array over the range.
C4_CachedRunEqualsPlainRun ==
    /\ array = plain
    /\ last.op = "range_sum" =>
          /\ last.ret = last.plainRet
          /\ last.ret = TrueSum(array, last.key[1], last.key[2])

\* A range query was answered from an entry that was already in the cache, after
\* an earlier query had filled a second entry.
C4_Witness ==
    /\ last.op = "range_sum"
    /\ last.hit
    /\ last.ret # MISS
    /\ Len(cache) >= 2

\* C5: invalidate_ranges_containing(position) removes exactly the entries whose
\* range covers position; every other entry stays, with its value.
C5_InvalidatesExactlyCovering ==
    [][last'.op = "invalidate"
       => /\ \A i \in 1..Len(cache) :
                IF Covers(cache[i].key, last'.index)
                THEN ~Contains(cache', cache[i].key)
                ELSE /\ Contains(cache', cache[i].key)
                     /\ getitem(cache', cache[i].key) = cache[i].value
          /\ KeySet(cache') \subseteq KeySet(cache)]_vars

\* An invalidation removed one entry and kept another.
C5_Witness ==
    /\ last.op = "invalidate"
    /\ Len(cache) < last.size
    /\ cache # <<>>

\* C9: no cache object with capacity <= 0 can be obtained (the constructor rejects it).
C9_NonPositiveCapacityRejected == capacity > 0

\* C10: get on a key that is not present returns MISS and leaves the entries,
\* their values and their order as they were.
C10_MissHasNoEffect ==
    [][(last'.op = "get" /\ ~Contains(cache, last'.key))
       => /\ last'.ret = MISS
          /\ cache' = cache]_vars

\* A miss on a cache that holds other entries.
C10_Witness ==
    /\ last.op = "get"
    /\ ~last.hit
    /\ last.size >= 2
    /\ last.ret = MISS

\* C11: invalidate_ranges_containing keeps the surviving entries in the order
\* they had: of two survivors, the one that was less recently used before the
\* call is still the less recently used one after it (the dictionary order is
\* the order in which put evicts), and that order is the recency order of the
\* successful gets and puts made so far.
C11_InvalidateKeepsRecencyOrder ==
    [][last'.op = "invalidate"
       => /\ KeyList(cache') = SelectSeq(KeyList(cache), LAMBDA k : Contains(cache', k))
          /\ KeyList(cache') = recency']_vars

\* An invalidation removed an entry and kept two whose dictionary order differs
\* from the order of their keys (the older one has the larger key).
C11_Witness ==
    /\ last.op = "invalidate"
    /\ Len(cache) < last.size
    /\ Len(cache) >= 2
    /\ cache[1].key[1] > cache[2].key[1]

\* C13: a put removes at most one entry. A put of a new key into a full cache
\* (as many entries as the capacity) removes exactly one and leaves the count as
\* it was; a put of a key already present stores the value and removes nothing:
\* the keys, the count and the other values stay. An entry is only ever removed
\* by a put of a new key into a full cache, so the count before the removal is
\* capacity + 1 (stated for capacity >= 0).
C13_PutRemovesAtMostOne ==
    [][last'.op = "put"
       => /\ Cardinality((KeySet(cache) \cup {last'.key}) \ KeySet(cache')) <= 1
          /\ KeySet(cache') \subseteq KeySet(cache) \cup {last'.key}
          /\ (~Contains(cache, last'.key) /\ Len(cache) = capacity)
                => /\ Cardinality((KeySet(cache) \cup {last'.key}) \ KeySet(cache')) = 1
                   /\ Len(cache') = Len(cache)
          /\ Contains(cache, last'.key)
                => /\ KeySet(cache') = KeySet(cache)
                   /\ Len(cache') = Len(cache)
                   /\ getitem(cache', last'.key) = last'.value
                   /\ \A j \in KeySet(cache) \ {last'.key} :
                         getitem(cache', j) = getitem(cache, j)
          /\ (capacity >= 0 /\ KeySet(cache') # KeySet(cache) \cup {last'.key})
                => /\ ~Contains(cache, last'.key)
                   /\ Len(cache) = capacity]_vars

\* A put of a key already present in a full cache of two or more entries.
C13_Witness ==
    /\ last.op = "put"
    /\ last.hit
    /\ capacity >= 2
    /\ last.size = capacity
    /\ Len(cache) = capacity
    /\ getitem(cache, last.key) = last.value

\* The range (left, right) is not a range of the list a.
OutOfRange(a, key) ==
    \/ key[1] < 0 \/ key[1] >= Len(a)
    \/ key[2] < 0 \/ key[2] >= Len(a)
    \/ key[1] > key[2]

\* Position i (0-based) is selected by the slice a[start : stop]: a negative
\* bound stands for that bound plus len(a).
Selected(a, i, start, stop) ==
    /\ i >= (IF start < 0 THEN start + Len(a) ELSE start)
    /\ i < (IF stop < 0 THEN stop + Len(a) ELSE stop)

\* The sum of the elements of a at the selected positions up to position hi.
RECURSIVE SelectedSum(_, _, _, _)
SelectedSum(a, hi, start, stop) ==
    IF hi < 0 THEN 0
    ELSE (IF Selected(a, hi, start, stop) THEN a[hi + 1] ELSE 0)
         + SelectedSum(a, hi - 1, start, stop)

\* C15 as claimed: a range_sum_with_cache call with left or right outside the
\* list, or with left > right, raises an index error.
C15_OutOfRangeRaises ==
    (last.op = "range_sum" /\ OutOfRange(array, last.key)) => last.raised

\* C15 as amended: such a call raises nothing and returns an integer. When the
\* key is not cached, or -1 is stored under it, that integer is the sum of the
\* elements the slice array[left : right + 1] selects (none when left > right;
\* a negative bound counts from the end), and it is stored under (left, right);
\* otherwise it is the stored value.
C15_OutOfRangeReturnsClampedSum ==
    (last.op = "range_sum" /\ OutOfRange(array, last.key))
    => /\ ~last.raised
       /\ last.ret \in Int
       /\ IF last.stored = MISS
          THEN /\ last.ret = SelectedSum(array, Len(array) - 1, last.key[1], last.key[2] + 1)
               /\ Contains(cache, last.key)
               /\ getitem(cache, last.key) = last.ret
          ELSE last.ret = last.stored

\* A call with two negative bounds, not cached before, returned a sum that is not 0.
C15_Witness ==
    /\ last.op = "range_sum"
    /\ last.key[1] < 0
    /\ last.key[2] < 0
    /\ last.key[1] < last.key[2]
    /\ ~last.hit
    /\ last.ret # 0
    /\ Len(cache) = 1

\* C20: a range_sum_with_cache call for a range of the list whose key is in the
\* cache returns the stored value without summing the slice and without calling
\* put: the sum is computed only when the key is absent.
C20_HitServedFromCache ==
    (last.op = "range_sum" /\ ~OutOfRange(array, last.key) /\ last.hit)
    => /\ ~last.computed
       /\ last.ret = last.stored

\* ------------------------------------------------ properties of SplayTree
\* The nodes met by an in-order traversal from x. A traversal that does not end
\* within d levels (a cycle of links) repeats the node it stopped at.
RECURSIVE InOrder(_, _, _)
InOrder(n, x, d) ==
    IF x = None THEN <<>>
    ELSE IF d = 0 THEN <<x, x>>
    ELSE InOrder(n, n[x].left, d - 1) \o <<x>> \o InOrder(n, n[x].right, d - 1)

Traversal == InOrder(nodes, root, Cardinality(DOMAIN nodes))

TraversalKeys == [i \in 1..Len(Traversal) |-> nodes[Traversal[i]].key]

\* C6: after every insert or get, the in-order traversal from the root yields
\* the keys in strictly increasing order.
C6_InOrderStrictlyIncreasing ==
    \A i \in 1..(Len(TraversalKeys) - 1) : TraversalKeys[i] < TraversalKeys[i + 1]

\* A get has splayed a node from depth 3 or more in a tree of at least four nodes.
C6_Witness ==
    /\ lastTree.op = "get"
    /\ lastTree.depth >= 3
    /\ Len(TraversalKeys) >= 4

\* C7: after every insert(key, .), and after every get(key) of a key the tree
\* holds, the root is the node with that key.
C7_AccessedKeyIsRoot ==
    (lastTree.op = "insert" \/ (lastTree.op = "get" /\ lastTree.present))
    => /\ root # None
       /\ nodes[root].key = lastTree.key

\* A get of a key whose node was three or more links below the root.
C7_Witness ==
    /\ lastTree.op = "get"
    /\ lastTree.present
    /\ lastTree.depth >= 3
    /\ nodes[root].key = lastTree.key

\* C8: the tree holds exactly the reference map: one node per inserted key, each
\* reachable from the root and holding the value of the latest insert; get
\* returns that value, and None exactly for the keys never inserted.
C8_TreeEqualsReferenceMap ==
    /\ {<<nodes[x].key, nodes[x].value>> : x \in DOMAIN nodes}
          = {<<k, ref[k]>> : k \in DOMAIN ref}
    /\ Cardinality(DOMAIN nodes) = Cardinality(DOMAIN ref)
    /\ {Traversal[i] : i \in 1..Len(Traversal)} = DOMAIN nodes
    /\ Len(Traversal) = Cardinality(DOMAIN nodes)
    /\ lastTree.op = "get" =>
          /\ lastTree.found = (lastTree.key \in DOMAIN ref)
          /\ lastTree.found => lastTree.ret = ref[lastTree.key]

\* A get found a key below the root in a tree that holds different values.
C8_Witness ==
    /\ lastTree.op = "get"
    /\ lastTree.found
    /\ lastTree.depth >= 2
    /\ \E j \in DOMAIN ref, k \in DOMAIN ref : ref[j] # ref[k]

\* The (node, side) slots that hold x as a child.
Slots(n, x) ==
    {<<y, "left">> : y \in {z \in DOMAIN n : n[z].left = x}}
        \cup {<<y, "right">> : y \in {z \in DOMAIN n : n[z].right = x}}

\* C16: after every insert or get the links agree. The root has no parent and
\* is nobody's child; every other node is held by exactly one child slot, of the
\* node its parent link names; the children of a node name it as their parent;
\* and every node created is reached from the root.
C16_LinksConsistent ==
    /\ (root = None) = (DOMAIN nodes = {})
    /\ root # None => /\ root \in DOMAIN nodes
                      /\ nodes[root].parent = None
                      /\ Slots(nodes, root) = {}
    /\ \A x \in DOMAIN nodes :
          /\ x # root =>
                /\ Cardinality(Slots(nodes, x)) = 1
                /\ nodes[x].parent \in DOMAIN nodes
                /\ \E side \in {"left", "right"} : <<nodes[x].parent, side>> \in Slots(nodes, x)
          /\ nodes[x].left # None =>
                /\ nodes[x].left \in DOMAIN nodes
                /\ nodes[nodes[x].left].parent = x
          /\ nodes[x].right # None =>
                /\ nodes[x].right \in DOMAIN nodes
                /\ nodes[nodes[x].right].parent = x
    /\ {Traversal[i] : i \in 1..Len(Traversal)} = DOMAIN nodes

\* A get has splayed a node past a subtree that changed sides: the root has two
\* children and one of them has a child on the side facing the root.
C16_Witness ==
    /\ lastTree.op = "get"
    /\ lastTree.depth >= 2
    /\ root # None
    /\ nodes[root].left # None
    /\ nodes[root].right # None
    /\ \/ nodes[nodes[root].left].right # None
       \/ nodes[nodes[root].right].left # None

\* The (key, value) pairs met by the in-order traversal of the tree [r, n].
Pairs(n, r) ==
    LET T == InOrder(n, r, Cardinality(DOMAIN n))
    IN  [i \in 1..Len(T) |-> <<n[T[i]].key, n[T[i]].value>>]

\* C17: one _right_rotate or _left_rotate about a node x keeps the in-order
\* sequence of (key, value) pairs and the set of nodes. When x has no child y on
\* the side that is to rise, nothing changes. Otherwise y becomes the parent of
\* x, with x on its other side, and takes x's place: in the same child slot of
\* x's former parent, or as the root when x had none. Only x, y, that parent and
\* the subtree of y that changes sides have a link changed.
C17_RotationKeepsInOrder ==
    [][lastTree'.op \in {"right_rotate", "left_rotate"}
       => LET x == lastTree'.x
              y == lastTree'.y
              p == lastTree'.parent
              right == lastTree'.op = "right_rotate"
          IN  /\ Pairs(nodes', root') = Pairs(nodes, root)
              /\ DOMAIN nodes' = DOMAIN nodes
              /\ \A z \in DOMAIN nodes : /\ nodes'[z].key = nodes[z].key
                                         /\ nodes'[z].value = nodes[z].value
              /\ IF y = None THEN root' = root /\ nodes' = nodes
                 ELSE /\ nodes'[x].parent = y
                      /\ (IF right THEN nodes'[y].right ELSE nodes'[y].left) = x
                      /\ (IF right THEN nodes'[x].left ELSE nodes'[x].right) = lastTree'.moved
                      /\ nodes'[y].parent = p
                      /\ IF p = None THEN root' = y
                         ELSE /\ root' = root
                              /\ nodes[p].left = x => nodes'[p].left = y
                              /\ nodes[p].right = x => nodes'[p].right = y
                              /\ nodes[p].left # x => nodes'[p].left = nodes[p].left
                              /\ nodes[p].right # x => nodes'[p].right = nodes[p].right
                      /\ \A z \in DOMAIN nodes \ {x, y, p, lastTree'.moved} :
                            nodes'[z] = nodes[z]]_vars

\* A rotation about a node that had a parent lifted a child whose inner subtree
\* changed sides.
C17_Witness ==
    /\ lastTree.op \in {"right_rotate", "left_rotate"}
    /\ lastTree.y # None
    /\ lastTree.parent # None
    /\ lastTree.moved # None
    /\ nodes[lastTree.x].parent = lastTree.y
    /\ nodes[lastTree.moved].parent = lastTree.x

\* The child of node x on the given side.
Child(n, x, side) == IF side = "left" THEN n[x].left ELSE n[x].right

Other(side) == IF side = "left" THEN "right" ELSE "left"

\* In the tree [r, n], node x stands where node g stood in [r0, n0]: under the
\* same parent and in the same child slot, or as the root.
InPlaceOf(n, r, x, n0, r0, g) ==
    /\ n[x].parent = n0[g].parent
    /\ IF n0[g].parent = None THEN r = x
       ELSE /\ r = r0
            /\ \A side \in {"left", "right"} :
                  Child(n0, n0[g].parent, side) = g => Child(n, n0[g].parent, side) = x

\* C18: an iteration of _splay for x whose parent p and grandparent g hang on
\* the same side (x is the `side` child of p and p the `side` child of g) ends
\* with x in g's former place, p the child of x and g the child of p, both on the
\* other side; the subtree between x and p hangs under p and the one between p
\* and g under g. (Rotating p before g would leave g, not p, as that child of x.)
C18_ZigZigGrandparentFirst ==
    [][(pc.at = "splay" /\ pc'.at = "splay")
       => LET x == pc.x
              p == nodes[x].parent
              g == nodes[p].parent
          IN  \A side \in {"left", "right"} :
                 (/\ g # None
                  /\ Child(nodes, p, side) = x
                  /\ Child(nodes, g, side) = p)
                 => /\ pc'.case = "zigzig"
                    /\ InPlaceOf(nodes', root', x, nodes, root, g)
                    /\ Child(nodes', x, Other(side)) = p
                    /\ nodes'[p].parent = x
                    /\ Child(nodes', p, Other(side)) = g
                    /\ nodes'[g].parent = p
                    /\ Child(nodes', p, side) = Child(nodes, x, Other(side))
                    /\ Child(nodes', g, side) = Child(nodes, p, Other(side))
                    /\ Child(nodes', x, side) = Child(nodes, x, side)
                    /\ Child(nodes', g, Other(side)) = Child(nodes, g, Other(side))]_vars

\* A zig-zig iteration has just ended below the root: x still has a parent (the
\* former parent of its grandparent), its former parent hangs under it and its
\* former grandparent under that one.
C18_Witness ==
    /\ pc.at = "splay"
    /\ pc.case = "zigzig"
    /\ nodes[pc.x].parent # None
    /\ \E side \in {"left", "right"} :
          LET p == Child(nodes, pc.x, side)
          IN  /\ p # None
              /\ Child(nodes, p, side) # None

\* The k-th Fibonacci number, F(0) = 0, F(1) = 1, by iteration from (F(0), F(1)).
RECURSIVE FibFrom(_, _, _)
FibFrom(k, a, b) == IF k = 0 THEN a ELSE FibFrom(k - 1, b, a + b)

F(k) == FibFrom(k, 0, 1)

\* C19: fibonacci_splay(n, tree), on a tree touched by fibonacci_splay calls
\* only, returns F(n); afterwards every key k stored in the tree maps to F(k),
\* each key is stored once, and n is stored.
C19_FibonacciSplayCorrect ==
    /\ \A x \in DOMAIN nodes : nodes[x].value = F(nodes[x].key)
    /\ \A x \in DOMAIN nodes, y \in DOMAIN nodes : nodes[x].key = nodes[y].key => x = y
    /\ lastTree.op = "fib" =>
          /\ lastTree.ret = F(lastTree.n)
          /\ \E x \in DOMAIN nodes : nodes[x].key = lastTree.n
          /\ {Traversal[i] : i \in 1..Len(Traversal)} = DOMAIN nodes

\* A call for n >= 4 that was not stored yet, on a tree that earlier calls had
\* filled in part: it returned F(n) and the tree now holds 0..n.
C19_Witness ==
    /\ lastTree.op = "fib"
    /\ lastTree.n >= 4
    /\ ~lastTree.present
    /\ lastTree.size >= 2
    /\ lastTree.ret = F(lastTree.n)
    /\ {nodes[x].key : x \in DOMAIN nodes} = 0..lastTree.n

\* C12: get of a key the tree does not hold returns None. On a non-empty tree the
\* last node the descent visited (the one whose missing child ended the search)
\* becomes the root, and its key is a neighbour of the searched key: no stored
\* key lies between the two. On an empty tree nothing changes.
C12_MissSplaysLastVisited ==
    [][(lastTree'.op = "get" /\ ~lastTree'.present)
       => /\ ~lastTree'.found
          /\ IF root = None
             THEN root' = None /\ nodes' = nodes
             ELSE /\ root' = Descent(nodes, root, lastTree'.key)
                  /\ nodes'[root'].parent = None
                  /\ nodes'[root'].key # lastTree'.key
                  /\ \A x \in DOMAIN nodes' :
                        ~(/\ nodes'[x].key > nodes'[root'].key
                          /\ nodes'[x].key < lastTree'.key)
                     /\ ~(/\ nodes'[x].key < nodes'[root'].key
                          /\ nodes'[x].key > lastTree'.key)]_vars

\* A get of a missing key ended two or more links below the root, and the node
\* it ended at is the root now.
C12_Witness ==
    /\ lastTree.op = "get"
    /\ ~lastTree.present
    /\ ~lastTree.found
    /\ lastTree.visited >= 2
    /\ root # None
    /\ nodes[root].key # lastTree.key

\* C14: every call returns. A call that has started reaches its end (under the
\* fairness of SpecSteps); the descent of get and insert goes one level down per
\* iteration, every iteration of _splay brings x nearer to the root, and the
\* scan of invalidate_ranges_containing makes one iteration per entry the cache
\* held when the call started.
C14_EveryCallReturns ==
    /\ [](pc.at \in {"find", "insert"} /\ pc.node # None
             => /\ pc.steps = Depth(nodes, pc.node)
                /\ pc.steps < Cardinality(DOMAIN nodes))
    /\ [][(pc.at = "splay" /\ pc'.at = "splay")
             => Depth(nodes', pc'.x) < Depth(nodes, pc.x)]_vars
    /\ [](pc.at = "invalidate"
             => /\ pc.steps + Len(pc.keys) = pc.size
                /\ pc.size <= capacity)
    /\ (pc.at # "idle") ~> (pc.at = "idle")

\* A get has returned after a descent and a splay of five or more iterations in all.
C14_Witness ==
    /\ pc.at = "idle"
    /\ pc.op = "get"
    /\ pc.steps >= 5
    /\ Cardinality(DOMAIN nodes) >= 3

=============================================================================
